---------------------------- MODULE Spec2Model ----------------------------
(***************************************************************************)
(* The duplex voice session of components/LiveConversation.tsx: the React  *)
(* component's state and refs, every startSession invocation with its      *)
(* await points, cleanup, the capture-frame callback, the transport        *)
(* callbacks (onopen, onmessage, onclose, onerror) and the playback        *)
(* scheduler.  Every startSession invocation k creates its own output      *)
(* context, input context, microphone stream, capture nodes and transport  *)
(* session; they are all identified by k.  A ref holds 0 for null.         *)
(***************************************************************************)
EXTENDS Integers, Sequences, FiniteSets, TLC

\* ------------------------------------------------------------------ bounds
MaxStarts == 1        \* startSession invocations under Spec, SpecCapture
MaxRaceStarts == 2    \* startSession invocations under SpecRace
MaxFrames == 2        \* capture callbacks under SpecCapture
MaxMsgs == 2          \* inbound messages under SpecTeardown
MaxTime == 2          \* device clock under Spec, SpecTeardown
MaxPlayMsgs == 3      \* inbound messages under SpecPlay
MaxPlayTime == 3      \* device clock under SpecPlay
MaxLen == 2           \* samples per capture buffer under SpecCodec
MaxBytes == 3         \* bytes per inbound payload under SpecCodec

\* ------------------------------------------------------- codec constants
NegScale == 32768     \* 0x8000, the scale of a negative sample
PosScale == 32767     \* 0x7FFF, the scale of a non-negative sample
DecodeScale == 32768  \* the divisor of decodeAudioData
\* Samples are counted in units of 1/65536: One is the sample 1.0.  Every
\* such sample is a float32, and its products with the scales are exact.
One == 2 * NegScale

Sessions == 1..(IF MaxStarts >= MaxRaceStarts THEN MaxStarts ELSE MaxRaceStarts)
Durations == {1, 2}
\* One buffer source per inbound message at most.
Handles == 1..(IF MaxMsgs >= MaxPlayMsgs THEN MaxMsgs ELSE MaxPlayMsgs)

\* ------------------------------------------------------- status strings
StInit == "Initializing..."
StConnecting == "Connecting to INDI-HUNTER..."
StConnected == "Connected. Listening..."
StClosed == "Connection closed."
StError == "Error connecting."
StDenied == "Microphone permission denied."
StNoMic == "No microphone found."
StFailedInit == "Failed to initialize: "

VARIABLES
  effect,                \* position of the useEffect([isOpen]) machinery
  apiKey,                \* process.env.API_KEY is set
  isOpen, isActive, isMicOn, status,
  audioContextRef, inputAudioContextRef, mediaStreamRef,
  processorRef, sourceRef, sessionPromiseRef,
  nextStartTimeRef, activeSourcesRef,
  nStarts,               \* number of startSession invocations so far
  pc,                    \* pc[k]: where invocation k of startSession stands
  micOnAtStart,          \* isMicOn as closed over by invocation k
  outCtx, inCtx,         \* AudioContext states
  stream,                \* microphone stream tracks
  srcNode, procNode,     \* capture nodes
  promise, chan,         \* connect promise and transport channel
  thenQueue,             \* reactions registered on a pending connect promise
  transportLog,          \* calls made on transport sessions, in order
  frames,                \* capture callbacks fired so far (isMicOn and the
                         \* state of the connect promise when fired)
  currentTime,           \* device clock of each output context
  sources,               \* buffer sources created so far
  decoding,              \* onmessage handlers suspended at the decode await, oldest first
  nMsgs,                 \* inbound messages delivered so far
  lastInterrupt,         \* id of the last message whose interrupted flag was handled
  cursorFrom,            \* what wrote nextStartTimeRef last: "start", "interrupt", "source"
  lastSched,             \* the source scheduled last since the cursor was reset, or 0
  releases,              \* how often each resource was released
  closedInFlight,        \* invocations that cleanup overtook
  failure,               \* what made invocation k of startSession throw
  uncaught,              \* exceptions that escaped cleanup
  codecPc,               \* the codec run: "idle"; "input", "encoded", "decoded";
                         \* "payload", "buffer", "threw"
  data,                  \* createPcmBlob's input samples, in units of 1/65536
  base64Data,            \* the base64 text: alphabet indices 0..63, 64 for '='
  channelData,           \* decodeAudioData's output samples, in units of 1/65536
  uploadPc,              \* uploadFileToGemini / waitForFileActive: "idle";
                         \* "upload", "poll", "sleep", "settle"; "returned",
                         \* "failed", "notFound", "timeout", "invalid"
  attempt,               \* the loop index of waitForFileActive
  polls,                 \* calls of ai.files.get made so far
  fileState              \* what the last poll reported

refs == <<audioContextRef, inputAudioContextRef, mediaStreamRef,
          processorRef, sourceRef, sessionPromiseRef>>
ui == <<isOpen, isActive, isMicOn, status>>
devices == <<outCtx, inCtx, stream, srcNode, procNode>>
transport == <<promise, chan, thenQueue, transportLog>>
playback == <<nextStartTimeRef, activeSourcesRef, currentTime, sources,
              decoding, nMsgs, lastInterrupt, cursorFrom, lastSched>>
starts == <<nStarts, pc, micOnAtStart>>
codec == <<codecPc, data, base64Data, channelData>>
upload == <<uploadPc, attempt, polls, fileState>>
vars == <<effect, apiKey, ui, refs, devices, transport, playback, starts,
          frames, releases, closedInFlight, failure, uncaught, codec, upload>>

NoRelease == [mic |-> 0, src |-> 0, proc |-> 0, out |-> 0, inp |-> 0, chan |-> 0]

\* The component before its first effect has run.
InitComponent ==
  /\ effect = "unmounted"
  /\ apiKey \in BOOLEAN
  /\ isOpen = FALSE
  /\ isActive = FALSE
  /\ isMicOn = TRUE
  /\ status = StInit
  /\ audioContextRef = 0
  /\ inputAudioContextRef = 0
  /\ mediaStreamRef = 0
  /\ processorRef = 0
  /\ sourceRef = 0
  /\ sessionPromiseRef = 0
  /\ nextStartTimeRef = 0
  /\ activeSourcesRef = <<>>
  /\ nStarts = 0
  /\ pc = [k \in Sessions |-> "none"]
  /\ micOnAtStart = [k \in Sessions |-> TRUE]
  /\ outCtx = [k \in Sessions |-> "none"]
  /\ inCtx = [k \in Sessions |-> "none"]
  /\ stream = [k \in Sessions |-> "none"]
  /\ srcNode = [k \in Sessions |-> "none"]
  /\ procNode = [k \in Sessions |-> "none"]
  /\ promise = [k \in Sessions |-> "none"]
  /\ chan = [k \in Sessions |-> "none"]
  /\ thenQueue = [k \in Sessions |-> <<>>]
  /\ transportLog = <<>>
  /\ frames = <<>>
  /\ currentTime = [k \in Sessions |-> 0]
  /\ sources = <<>>
  /\ decoding = <<>>
  /\ nMsgs = 0
  /\ lastInterrupt = 0
  /\ cursorFrom = "start"
  /\ lastSched = 0
  /\ releases = [k \in Sessions |-> NoRelease]
  /\ closedInFlight = {}
  /\ failure = [k \in Sessions |-> "none"]
  /\ uncaught = 0

\* No upload is under way.
NoUpload ==
  /\ uploadPc = "idle"
  /\ attempt = 0
  /\ polls = 0
  /\ fileState = "none"

Init ==
  /\ InitComponent
  /\ NoUpload
  /\ codecPc = "idle"
  /\ data = <<>>
  /\ base64Data = <<>>
  /\ channelData = <<>>

\* ----------------------------------------------------------------- helpers
Bump(rel, k, what) ==
  IF k = 0 THEN rel ELSE [rel EXCEPT ![k][what] = @ + 1]

InFlight(k) == pc[k] \in {"resumeOut", "resumeIn", "getMic"}

\* session.close(): closes an open channel; the log keeps the call.
SessionClose(ch, k) ==
  IF ch[k] = "open" THEN [ch EXCEPT ![k] = "closing"] ELSE ch

\* A forEach that stops nothing.
StopNone(srcs, list) == srcs

\* s.stop() on every source of a list, at the device time of its context.
StopAll(srcs, list) ==
  [h \in DOMAIN srcs |->
     IF \E i \in DOMAIN list : list[i] = h
     THEN [srcs[h] EXCEPT
             !.state = IF @ \in {"scheduled", "playing"} THEN "stopped" ELSE @,
             !.stopAt = IF srcs[h].state \in {"scheduled", "playing"}
                        THEN currentTime[srcs[h].ctx] ELSE @,
             !.stops = @ + 1]
     ELSE srcs[h]]

\* Reactions run last-registered first.
RECURSIVE RunReactionsLifo(_, _, _, _)
RunReactionsLifo(q, k, ch, log) ==
  IF q = <<>> THEN <<ch, log>>
  ELSE LET last == q[Len(q)]
           rest == SubSeq(q, 1, Len(q) - 1) IN
       IF last.op = "close"
       THEN RunReactionsLifo(rest, k, SessionClose(ch, k),
                             Append(log, [op |-> "close", s |-> k, f |-> 0]))
       ELSE RunReactionsLifo(rest, k, ch,
                             Append(log, [op |-> "send", s |-> k, f |-> last.f]))

\* The reactions registered with .then() on connect promise k run in the
\* order of their registration once the promise resolves.
RECURSIVE RunReactions(_, _, _, _)
RunReactions(q, k, ch, log) ==
  IF q = <<>> THEN <<ch, log>>
  ELSE IF Head(q).op = "close"
       THEN RunReactions(Tail(q), k, SessionClose(ch, k),
                         Append(log, [op |-> "close", s |-> k, f |-> 0]))
       ELSE RunReactions(Tail(q), k, ch,
                         Append(log, [op |-> "send", s |-> k, f |-> Head(q).f]))

CountOp(q, what) == Cardinality({i \in DOMAIN q : q[i].op = what})

\* A rejection that is logged nowhere.
RejectSilently(q, k, log) == log

\* The connect promise k rejects: the reaction of every queued send skips to
\* its .catch, which logs "Send Error:" (line 154); a queued close logs too
\* (line 248) and is no send.
RECURSIVE RejectReactions(_, _, _)
RejectReactions(q, k, log) ==
  IF q = <<>> THEN log
  ELSE RejectReactions(Tail(q), k,
         IF Head(q).op = "send"
         THEN Append(log, [op |-> "sendError", s |-> k, f |-> Head(q).f])
         ELSE log)

\* ----------------------------------------------------------------- cleanup
\* sessionPromiseRef.current.then(session => session.close()).catch(...)
cleanupSession ==
  LET p == sessionPromiseRef IN
  /\ sessionPromiseRef' = 0
  /\ IF p # 0 /\ promise[p] = "resolved"
     THEN /\ chan' = SessionClose(chan, p)
          /\ transportLog' = Append(transportLog, [op |-> "close", s |-> p, f |-> 0])
          /\ thenQueue' = thenQueue
     ELSE IF p # 0 /\ promise[p] = "pending"
     THEN /\ thenQueue' = [thenQueue EXCEPT ![p] = Append(@, [op |-> "close", f |-> 0])]
          /\ UNCHANGED <<chan, transportLog>>
     ELSE UNCHANGED <<chan, transportLog, thenQueue>>
  /\ promise' = promise

\* A cleanup that stops the tracks and forgets to null mediaStreamRef.
cleanupDevicesKeepsStream ==
  LET m == mediaStreamRef
      s == sourceRef
      p == processorRef
      a == audioContextRef
      i == inputAudioContextRef
      closeOut == a # 0 /\ outCtx[a] # "closed"
      closeIn == i # 0 /\ inCtx[i] # "closed"
  IN
  /\ stream' = IF m # 0 THEN [stream EXCEPT ![m] = "stopped"] ELSE stream
  /\ mediaStreamRef' = mediaStreamRef
  /\ srcNode' = IF s # 0 THEN [srcNode EXCEPT ![s] = "disconnected"] ELSE srcNode
  /\ sourceRef' = 0
  /\ procNode' = IF p # 0 THEN [procNode EXCEPT ![p] = "disconnected"] ELSE procNode
  /\ processorRef' = 0
  /\ outCtx' = IF closeOut THEN [outCtx EXCEPT ![a] = "closed"] ELSE outCtx
  /\ audioContextRef' = 0
  /\ inCtx' = IF closeIn THEN [inCtx EXCEPT ![i] = "closed"] ELSE inCtx
  /\ inputAudioContextRef' = 0
  /\ releases' =
       Bump(Bump(Bump(Bump(Bump(Bump(releases,
         IF sessionPromiseRef # 0 /\ promise[sessionPromiseRef] = "resolved"
         THEN sessionPromiseRef ELSE 0, "chan"),
         m, "mic"), s, "src"), p, "proc"),
         IF closeOut THEN a ELSE 0, "out"),
         IF closeIn THEN i ELSE 0, "inp")

\* Lines 252-275: the device refs, each released if set and then nulled.
cleanupDevices ==
  LET m == mediaStreamRef
      s == sourceRef
      p == processorRef
      a == audioContextRef
      i == inputAudioContextRef
      closeOut == a # 0 /\ outCtx[a] # "closed"
      closeIn == i # 0 /\ inCtx[i] # "closed"
  IN
  /\ stream' = IF m # 0 THEN [stream EXCEPT ![m] = "stopped"] ELSE stream
  /\ mediaStreamRef' = 0
  /\ srcNode' = IF s # 0 THEN [srcNode EXCEPT ![s] = "disconnected"] ELSE srcNode
  /\ sourceRef' = 0
  /\ procNode' = IF p # 0 THEN [procNode EXCEPT ![p] = "disconnected"] ELSE procNode
  /\ processorRef' = 0
  /\ outCtx' = IF closeOut THEN [outCtx EXCEPT ![a] = "closed"] ELSE outCtx
  /\ audioContextRef' = 0
  /\ inCtx' = IF closeIn THEN [inCtx EXCEPT ![i] = "closed"] ELSE inCtx
  /\ inputAudioContextRef' = 0
  /\ releases' =
       Bump(Bump(Bump(Bump(Bump(Bump(releases,
         IF sessionPromiseRef # 0 /\ promise[sessionPromiseRef] = "resolved"
         THEN sessionPromiseRef ELSE 0, "chan"),
         m, "mic"), s, "src"), p, "proc"),
         IF closeOut THEN a ELSE 0, "out"),
         IF closeIn THEN i ELSE 0, "inp")

cleanup ==
  /\ cleanupSession
  /\ cleanupDevices
  /\ sources' = StopAll(sources, activeSourcesRef)
  /\ activeSourcesRef' = <<>>
  /\ isActive' = FALSE
  /\ closedInFlight' = closedInFlight \cup
       {k \in Sessions : InFlight(k) \/ promise[k] = "pending"}

\* Everything cleanup leaves alone.
cleanupFrame ==
  UNCHANGED <<upload, codec, uncaught, apiKey, isMicOn, status, nextStartTimeRef, currentTime, decoding,
              nMsgs, lastInterrupt, cursorFrom, lastSched, starts, frames,
              failure>>

\* ------------------------------------------------------ useEffect([isOpen])
\* The effect of the first render (isOpen is false): cleanup().
Mount ==
  /\ effect = "unmounted"
  /\ effect' = "idle"
  /\ cleanup
  /\ cleanupFrame
  /\ UNCHANGED isOpen

\* isOpen turns false: React first runs the destructor of the previous
\* effect (cleanup), then the effect itself, which calls cleanup again.
CloseDestructor ==
  /\ effect = "idle"
  /\ isOpen
  /\ isOpen' = FALSE
  /\ effect' = "reclose"
  /\ cleanup
  /\ cleanupFrame

CloseEffect ==
  /\ effect = "reclose"
  /\ effect' = "idle"
  /\ cleanup
  /\ cleanupFrame
  /\ UNCHANGED isOpen

\* --------------------------------------------- cleanup with a failing step
\* The release steps of cleanup in the order of lines 247-280.
ReleaseSteps ==
  <<"close", "track", "source", "processor", "outCtx", "inCtx", "stop">>

\* The steps whose call stands unguarded in cleanup: an exception there
\* leaves cleanup.  session.close() fails inside .then/.catch (248), a
\* context's close() fails by rejecting the promise it returns (268, 273),
\* s.stop() is wrapped in try/catch (278).
Unguarded == {"track", "source", "processor"}

\* cleanup, lines 246-283, when the release call of step `step` fails.
cleanupFailing(step) ==
  LET p == sessionPromiseRef
      m == mediaStreamRef
      s == sourceRef
      pr == processorRef
      a == audioContextRef
      i == inputAudioContextRef
      at == CHOOSE j \in DOMAIN ReleaseSteps : ReleaseSteps[j] = step
      abort == step \in Unguarded
      \* step j is reached and its call succeeds
      done(j) == (abort => j < at) /\ j # at
      \* the statement after step j's call is reached
      past(j) == abort => j < at
      closeOut == a # 0 /\ outCtx[a] # "closed"
      closeIn == i # 0 /\ inCtx[i] # "closed"
  IN
  /\ CASE step = "close" -> p # 0 /\ promise[p] = "resolved" /\ chan[p] = "open"
       [] step = "track" -> m # 0 /\ stream[m] = "live"
       [] step = "source" -> s # 0
       [] step = "processor" -> pr # 0
       [] step = "outCtx" -> closeOut
       [] step = "inCtx" -> closeIn
       [] step = "stop" -> /\ activeSourcesRef # <<>>
                           /\ sources[Head(activeSourcesRef)].state
                                \in {"scheduled", "playing"}
  /\ IF step = "close"
     THEN /\ sessionPromiseRef' = 0
          /\ transportLog' = Append(transportLog, [op |-> "close", s |-> p, f |-> 0])
          /\ UNCHANGED <<chan, thenQueue, promise>>
     ELSE cleanupSession
  /\ stream' = IF m # 0 /\ done(2) THEN [stream EXCEPT ![m] = "stopped"] ELSE stream
  /\ mediaStreamRef' = IF past(2) THEN 0 ELSE m
  /\ srcNode' = IF s # 0 /\ done(3) THEN [srcNode EXCEPT ![s] = "disconnected"]
                ELSE srcNode
  /\ sourceRef' = IF past(3) THEN 0 ELSE s
  /\ procNode' = IF pr # 0 /\ done(4) THEN [procNode EXCEPT ![pr] = "disconnected"]
                 ELSE procNode
  /\ processorRef' = IF past(4) THEN 0 ELSE pr
  /\ outCtx' = IF closeOut /\ done(5) THEN [outCtx EXCEPT ![a] = "closed"] ELSE outCtx
  /\ audioContextRef' = IF past(5) THEN 0 ELSE a
  /\ inCtx' = IF closeIn /\ done(6) THEN [inCtx EXCEPT ![i] = "closed"] ELSE inCtx
  /\ inputAudioContextRef' = IF past(6) THEN 0 ELSE i
  /\ sources' = IF ~past(7) THEN sources
                ELSE IF step = "stop" THEN StopAll(sources, Tail(activeSourcesRef))
                ELSE StopAll(sources, activeSourcesRef)
  /\ activeSourcesRef' = IF past(7) THEN <<>> ELSE activeSourcesRef
  /\ isActive' = IF abort THEN isActive ELSE FALSE
  /\ uncaught' = IF abort THEN uncaught + 1 ELSE uncaught
  /\ releases' =
       Bump(Bump(Bump(Bump(Bump(Bump(releases,
         IF p # 0 /\ promise[p] = "resolved" /\ done(1) THEN p ELSE 0, "chan"),
         IF done(2) THEN m ELSE 0, "mic"),
         IF done(3) THEN s ELSE 0, "src"),
         IF done(4) THEN pr ELSE 0, "proc"),
         IF closeOut /\ done(5) THEN a ELSE 0, "out"),
         IF closeIn /\ done(6) THEN i ELSE 0, "inp")
  /\ closedInFlight' = closedInFlight \cup
       {k \in Sessions : InFlight(k) \/ promise[k] = "pending"}
  /\ UNCHANGED <<upload, codec, apiKey, isMicOn, status, nextStartTimeRef, currentTime,
                 decoding, nMsgs, lastInterrupt, cursorFrom, lastSched, starts,
                 frames, failure>>

\* isOpen turns false and a release step of the destructor's cleanup fails.
\* React reports an exception thrown by a destructor and goes on to run the
\* effect, which calls cleanup again.
CloseDestructorFailing(step) ==
  /\ effect = "idle"
  /\ isOpen
  /\ isOpen' = FALSE
  /\ effect' = "reclose"
  /\ cleanupFailing(step)

\* A release step of the effect's cleanup fails.
CloseEffectFailing(step) ==
  /\ effect = "reclose"
  /\ effect' = "idle"
  /\ cleanupFailing(step)
  /\ UNCHANGED isOpen

\* ------------------------------------------------------------ startSession
\* isOpen turns true: the effect calls startSession, which runs up to its
\* first await (ctx.resume()) or throws for want of an API key.
Open(maxStarts) ==
  /\ effect = "idle"
  /\ ~isOpen
  /\ nStarts < maxStarts
  /\ LET k == nStarts + 1 IN
     /\ isOpen' = TRUE
     /\ nStarts' = k
     /\ micOnAtStart' = [micOnAtStart EXCEPT ![k] = isMicOn]
     /\ IF apiKey
        THEN /\ status' = StConnecting
             /\ outCtx' = [outCtx EXCEPT ![k] = "running"]
             /\ pc' = [pc EXCEPT ![k] = "resumeOut"]
             /\ failure' = failure
        ELSE /\ status' = StFailedInit
             /\ outCtx' = outCtx
             /\ pc' = [pc EXCEPT ![k] = "failed"]
             /\ failure' = [failure EXCEPT ![k] = "NoApiKey"]
  /\ UNCHANGED <<upload, codec, uncaught, effect, apiKey, isActive, isMicOn, refs, inCtx, stream, srcNode,
                 procNode, transport, playback, frames, releases, closedInFlight>>

\* await ctx.resume() returns: lines 107-112.
ResumedOut(k) ==
  /\ effect = "idle"
  /\ pc[k] = "resumeOut"
  /\ audioContextRef' = k
  /\ nextStartTimeRef' = currentTime[k]
  /\ cursorFrom' = "start"
  /\ lastSched' = 0
  /\ inCtx' = [inCtx EXCEPT ![k] = "running"]
  /\ pc' = [pc EXCEPT ![k] = "resumeIn"]
  /\ UNCHANGED <<upload, codec, uncaught, effect, apiKey, ui, inputAudioContextRef, mediaStreamRef,
                 processorRef, sourceRef, sessionPromiseRef, outCtx, stream,
                 srcNode, procNode, transport, activeSourcesRef, currentTime,
                 sources, decoding, nMsgs, lastInterrupt, nStarts, micOnAtStart,
                 frames, releases, closedInFlight, failure>>

\* await inputCtx.resume() returns: lines 113-117.
ResumedIn(k) ==
  /\ effect = "idle"
  /\ pc[k] = "resumeIn"
  /\ inputAudioContextRef' = k
  /\ pc' = [pc EXCEPT ![k] = "getMic"]
  /\ UNCHANGED <<upload, codec, uncaught, effect, apiKey, ui, audioContextRef, mediaStreamRef,
                 processorRef, sourceRef, sessionPromiseRef, devices, transport,
                 playback, nStarts, micOnAtStart, frames, releases,
                 closedInFlight, failure>>

\* A catch block that tells no error name from another.
CatchStatusGeneric(err) == StFailedInit

\* The status the catch block of startSession sets for an error name.
CatchStatus(err) ==
  IF err = "NotAllowedError" THEN StDenied
  ELSE IF err = "NotFoundError" THEN StNoMic
  ELSE StFailedInit

\* getUserMedia resolves with a stream: lines 125-232, through to
\* ai.live.connect and the assignment of sessionPromiseRef.
\* createMediaStreamSource on an input context that cleanup has closed in
\* the meantime throws in some browsers and not in others.
MicGranted(k) ==
  /\ effect = "idle"
  /\ pc[k] = "getMic"
  /\ stream' = [stream EXCEPT ![k] = "live"]
  /\ mediaStreamRef' = k
  /\ \E throws \in {FALSE, inCtx[k] = "closed"} :
       IF throws
       THEN /\ status' = CatchStatus("InvalidStateError")
            /\ pc' = [pc EXCEPT ![k] = "failed"]
            /\ failure' = [failure EXCEPT ![k] = "InvalidStateError"]
            /\ UNCHANGED <<srcNode, procNode, sourceRef, processorRef,
                           sessionPromiseRef, promise, chan>>
       ELSE /\ srcNode' = [srcNode EXCEPT ![k] = "connected"]
            /\ procNode' = [procNode EXCEPT ![k] = "connected"]
            /\ sourceRef' = k
            /\ processorRef' = k
            /\ chan' = [chan EXCEPT ![k] = "connecting"]
            /\ promise' = [promise EXCEPT ![k] = "pending"]
            /\ sessionPromiseRef' = k
            /\ pc' = [pc EXCEPT ![k] = "done"]
            /\ UNCHANGED <<status, failure>>
  /\ UNCHANGED <<upload, codec, uncaught, effect, apiKey, isOpen, isActive, isMicOn, audioContextRef,
                 inputAudioContextRef, outCtx, inCtx, thenQueue, transportLog,
                 playback, nStarts, micOnAtStart, frames, releases,
                 closedInFlight>>

\* getUserMedia rejects: the catch block, lines 234-243.
MicFailed(k, err) ==
  /\ effect = "idle"
  /\ pc[k] = "getMic"
  /\ status' = CatchStatus(err)
  /\ pc' = [pc EXCEPT ![k] = "failed"]
  /\ failure' = [failure EXCEPT ![k] = err]
  /\ UNCHANGED <<upload, codec, uncaught, effect, apiKey, isOpen, isActive, isMicOn, refs, devices,
                 transport, playback, nStarts, micOnAtStart, frames, releases,
                 closedInFlight>>

\* ------------------------------------------------------ transport callbacks
\* onopen, lines 182-185.
TransportOpen(k) ==
  /\ effect = "idle"
  /\ chan[k] = "connecting"
  /\ chan' = [chan EXCEPT ![k] = "open"]
  /\ status' = StConnected
  /\ isActive' = TRUE
  /\ UNCHANGED <<upload, codec, uncaught, effect, apiKey, isOpen, isMicOn, refs, devices, promise,
                 thenQueue, transportLog, playback, starts, frames, releases,
                 closedInFlight, failure>>

\* onclose, lines 221-224.
TransportClosed(k) ==
  /\ effect = "idle"
  /\ chan[k] \in {"open", "closing", "errored", "connectFailed"}
  /\ chan' = [chan EXCEPT ![k] = "closed"]
  /\ status' = StClosed
  /\ isActive' = FALSE
  /\ UNCHANGED <<upload, codec, uncaught, effect, apiKey, isOpen, isMicOn, refs, devices, promise,
                 thenQueue, transportLog, playback, starts, frames, releases,
                 closedInFlight, failure>>

\* onerror, lines 225-228.
TransportError(k) ==
  /\ effect = "idle"
  /\ chan[k] \in {"connecting", "open"}
  /\ chan' = [chan EXCEPT ![k] = IF @ = "open" THEN "errored" ELSE "connectFailed"]
  /\ status' = StError
  /\ UNCHANGED <<upload, codec, uncaught, effect, apiKey, isOpen, isActive, isMicOn, refs, devices,
                 promise, thenQueue, transportLog, playback, starts, frames,
                 releases, closedInFlight, failure>>

\* The connect promise resolves with the session (after the channel has
\* opened): the queued .then reactions of lines 147-154 and 248 run.
ConnectResolve(k) ==
  /\ effect = "idle"
  /\ promise[k] = "pending"
  /\ chan[k] \in {"open", "errored", "closed"}
  /\ promise' = [promise EXCEPT ![k] = "resolved"]
  /\ LET r == RunReactions(thenQueue[k], k, chan, transportLog) IN
     /\ chan' = r[1]
     /\ transportLog' = r[2]
  /\ releases' = [releases EXCEPT ![k].chan = @ + CountOp(thenQueue[k], "close")]
  /\ thenQueue' = [thenQueue EXCEPT ![k] = <<>>]
  /\ UNCHANGED <<upload, codec, uncaught, effect, apiKey, ui, refs, devices, playback, starts, frames,
                 closedInFlight, failure>>

\* The connect promise rejects: the .catch reactions only log.
ConnectReject(k) ==
  /\ effect = "idle"
  /\ promise[k] = "pending"
  /\ chan[k] = "connecting"
  /\ promise' = [promise EXCEPT ![k] = "rejected"]
  /\ chan' = [chan EXCEPT ![k] = "dead"]
  /\ transportLog' = RejectReactions(thenQueue[k], k, transportLog)
  /\ thenQueue' = [thenQueue EXCEPT ![k] = <<>>]
  /\ UNCHANGED <<upload, codec, uncaught, effect, apiKey, ui, refs, devices, playback,
                 starts, frames, releases, closedInFlight, failure>>

\* ------------------------------------------------------------------ capture
\* processor.onaudioprocess of invocation k, lines 133-156.  The callback
\* closes over the isMicOn of the render that called startSession.
Frame(k, maxFrames) ==
  /\ effect = "idle"
  /\ procNode[k] = "connected"
  /\ inCtx[k] = "running"
  /\ Len(frames) < maxFrames
  /\ frames' = Append(frames, [mic |-> isMicOn, by |-> k,
                               conn |-> IF sessionPromiseRef = 0 THEN "none"
                                        ELSE promise[sessionPromiseRef]])
  /\ LET f == Len(frames) + 1
         p == sessionPromiseRef IN
     IF micOnAtStart[k] /\ p # 0 /\ promise[p] = "resolved"
     THEN /\ transportLog' = Append(transportLog, [op |-> "send", s |-> p, f |-> f])
          /\ thenQueue' = thenQueue
     ELSE IF micOnAtStart[k] /\ p # 0 /\ promise[p] = "pending"
     THEN /\ thenQueue' = [thenQueue EXCEPT ![p] = Append(@, [op |-> "send", f |-> f])]
          /\ transportLog' = transportLog
     ELSE IF micOnAtStart[k] /\ p # 0 /\ promise[p] = "rejected"
     THEN /\ transportLog' =
               Append(transportLog, [op |-> "sendError", s |-> p, f |-> f])
          /\ thenQueue' = thenQueue
     ELSE UNCHANGED <<thenQueue, transportLog>>
  /\ UNCHANGED <<upload, codec, uncaught, effect, apiKey, ui, refs, devices, promise, chan, playback,
                 starts, releases, closedInFlight, failure>>

\* A failed send that is put back into the log for another try.
SendFailedRetried(log, p, f) ==
  Append(Append(log, [op |-> "sendError", s |-> p, f |-> f]),
         [op |-> "send", s |-> p, f |-> f])

\* Lines 148-154: sendRealtimeInput throws and .catch logs "Send Error:".
SendFailed(log, p, f) == Append(log, [op |-> "sendError", s |-> p, f |-> f])

\* processor.onaudioprocess of invocation k when the send of its frame
\* fails on the connected session.
FrameSendFails(k, maxFrames) ==
  /\ effect = "idle"
  /\ procNode[k] = "connected"
  /\ inCtx[k] = "running"
  /\ Len(frames) < maxFrames
  /\ micOnAtStart[k]
  /\ sessionPromiseRef # 0
  /\ promise[sessionPromiseRef] = "resolved"
  /\ frames' = Append(frames, [mic |-> isMicOn, by |-> k,
                               conn |-> IF sessionPromiseRef = 0 THEN "none"
                                        ELSE promise[sessionPromiseRef]])
  /\ transportLog' = SendFailed(transportLog, sessionPromiseRef, Len(frames) + 1)
  /\ UNCHANGED <<upload, codec, uncaught, effect, apiKey, ui, refs, devices, promise,
                 chan, thenQueue, playback, starts, releases, closedInFlight,
                 failure>>

\* A mic button that also empties the playback queue.
ToggleMicClearsQueue ==
  /\ effect = "idle"
  /\ isOpen
  /\ isMicOn' = ~isMicOn
  /\ activeSourcesRef' = <<>>
  /\ UNCHANGED <<upload, codec, uncaught, effect, apiKey, isOpen, isActive, status, refs,
                 devices, transport, nextStartTimeRef, currentTime, sources,
                 decoding, nMsgs, lastInterrupt, cursorFrom, lastSched, starts,
                 frames, releases, closedInFlight, failure>>

\* The mic button, lines 305-310: setIsMicOn(!isMicOn).
ToggleMic ==
  /\ effect = "idle"
  /\ isOpen
  /\ isMicOn' = ~isMicOn
  /\ UNCHANGED <<upload, codec, uncaught, effect, apiKey, isOpen, isActive, status, refs, devices,
                 transport, playback, starts, frames, releases, closedInFlight,
                 failure>>

\* ----------------------------------------------------------------- playback
\* The smaller of the two, where the code takes the larger.
Min(a, b) == IF a <= b THEN a ELSE b

\* Math.max, line 200.
Max(a, b) == IF a >= b THEN a ELSE b

\* A scheduler that forgets the cursor and always starts at once.
StartTimeAtOnce(now, cursor) == now

\* A scheduler that always starts at the cursor, however stale.
StartTimeAtCursor(now, cursor) == cursor

\* Lines 198-200: the start time of a buffer handled at device time now.
StartTime(now, cursor) == Max(now, cursor)

\* A scheduler that starts the buffer and leaves the cursor where it was.
ScheduleKeepsCursor(h) ==
  LET now == currentTime[h.ctx]
      startTime == StartTime(now, nextStartTimeRef)
      id == Len(sources) + 1
      src == [msg |-> h.id, ctx |-> h.ctx, start |-> startTime, dur |-> h.dur,
              now |-> now, prev |-> lastSched, after |-> cursorFrom,
              intr |-> lastInterrupt,
              state |-> IF outCtx[h.ctx] = "running" /\ startTime <= now
                        THEN "playing" ELSE "scheduled",
              stopAt |-> -1, stops |-> 0, ended |-> FALSE]
  IN <<Append(sources, src), Append(activeSourcesRef, id), nextStartTimeRef>>

\* Lines 193-207: the state after the decoded buffer of handler h has been
\* scheduled: <<sources, activeSourcesRef, nextStartTimeRef>>.
Schedule(h) ==
  LET now == currentTime[h.ctx]
      startTime == StartTime(now, nextStartTimeRef)
      id == Len(sources) + 1
      src == [msg |-> h.id, ctx |-> h.ctx, start |-> startTime, dur |-> h.dur,
              now |-> now, prev |-> lastSched, after |-> cursorFrom,
              intr |-> lastInterrupt,
              state |-> IF outCtx[h.ctx] = "running" /\ startTime <= now
                        THEN "playing" ELSE "scheduled",
              stopAt |-> -1, stops |-> 0, ended |-> FALSE]
  IN <<Append(sources, src), Append(activeSourcesRef, id), startTime + h.dur>>

\* An interrupted branch that stops the sources and keeps the old cursor.
InterruptKeepsCursor(st) == <<StopAll(st[1], st[2]), <<>>, st[3]>>

\* Lines 210-219: the interrupted branch, on <<sources, list, cursor>>.
Interrupt(st) ==
  <<StopAll(st[1], st[2]),
    <<>>,
    IF audioContextRef # 0 THEN currentTime[audioContextRef] ELSE st[3]>>

\* onmessage, lines 186-192 and 210-219: a message with audio suspends at the
\* decode await; one without runs its interrupted branch at once.
\* d = 0 is a message without audio, bad a payload of odd length.
Deliver(k, d, intr, bad, maxMsgs) ==
  /\ effect = "idle"
  /\ chan[k] = "open"
  /\ nMsgs < maxMsgs
  /\ d > 0 \/ intr
  /\ bad => d = 1
  /\ nMsgs' = nMsgs + 1
  /\ IF d > 0 /\ audioContextRef # 0
     THEN /\ decoding' = Append(decoding,
               [id |-> nMsgs + 1, ctx |-> audioContextRef, dur |-> d,
                intr |-> intr, bad |-> bad])
          /\ UNCHANGED <<sources, activeSourcesRef, nextStartTimeRef,
                         lastInterrupt, cursorFrom, lastSched>>
     ELSE IF intr
     THEN LET r == Interrupt(<<sources, activeSourcesRef, nextStartTimeRef>>) IN
          /\ sources' = r[1]
          /\ activeSourcesRef' = r[2]
          /\ nextStartTimeRef' = r[3]
          /\ lastInterrupt' = nMsgs + 1
          /\ cursorFrom' = IF audioContextRef # 0 THEN "interrupt" ELSE cursorFrom
          /\ lastSched' = IF audioContextRef # 0 THEN 0 ELSE lastSched
          /\ decoding' = decoding
     ELSE UNCHANGED <<sources, activeSourcesRef, nextStartTimeRef,
                      lastInterrupt, cursorFrom, lastSched, decoding>>
  /\ UNCHANGED <<upload, codec, uncaught, effect, apiKey, ui, refs, devices, transport, currentTime,
                 starts, frames, releases, closedInFlight, failure>>

\* A decoder that makes a buffer of every payload.
NeverThrows(h) == FALSE

\* Line 68: new Int16Array(data.buffer) throws for a payload of odd length.
Throws(h) == h.bad

\* onmessage resumes after the decode await, lines 191-219; the handlers
\* resume in the order in which they suspended.  An odd-length payload makes
\* new Int16Array(data.buffer) throw: the handler ends there.
DecodeDone ==
  /\ effect = "idle"
  /\ decoding # <<>>
  /\ decoding' = Tail(decoding)
  /\ LET h == Head(decoding) IN
     IF Throws(h)
     THEN UNCHANGED <<sources, activeSourcesRef, nextStartTimeRef,
                      lastInterrupt, cursorFrom, lastSched>>
     ELSE LET sch == Schedule(h)
              r == IF h.intr THEN Interrupt(sch) ELSE sch
              reset == h.intr /\ audioContextRef # 0
          IN
          /\ sources' = r[1]
          /\ activeSourcesRef' = r[2]
          /\ nextStartTimeRef' = r[3]
          /\ lastInterrupt' = IF h.intr THEN h.id ELSE lastInterrupt
          /\ cursorFrom' = IF reset THEN "interrupt" ELSE "source"
          /\ lastSched' = IF reset THEN 0 ELSE Len(sources) + 1
  /\ UNCHANGED <<upload, codec, uncaught, effect, apiKey, ui, refs, devices, transport, currentTime,
                 nMsgs, starts, frames, releases, closedInFlight, failure>>

\* The output device clock of context k advances by one unit; buffers whose
\* start time is reached begin to sound, buffers played to their end finish.
Tick(k, maxTime) ==
  /\ effect = "idle"
  /\ outCtx[k] = "running"
  /\ currentTime[k] < maxTime
  /\ currentTime' = [currentTime EXCEPT ![k] = @ + 1]
  /\ sources' =
       [h \in DOMAIN sources |->
          IF sources[h].ctx # k THEN sources[h]
          ELSE IF sources[h].state = "scheduled" /\ sources[h].start <= currentTime[k] + 1
          THEN [sources[h] EXCEPT !.state = "playing"]
          ELSE IF sources[h].state = "playing"
                  /\ sources[h].start + sources[h].dur <= currentTime[k] + 1
          THEN [sources[h] EXCEPT !.state = "finished"]
          ELSE sources[h]]
  /\ UNCHANGED <<upload, codec, uncaught, effect, apiKey, ui, refs, devices, transport, nextStartTimeRef,
                 activeSourcesRef, decoding, nMsgs, lastInterrupt, cursorFrom,
                 lastSched, starts, frames, releases, closedInFlight, failure>>

\* A completion callback that empties the list.
WithoutAny(list, h) == <<>>

\* The filter of line 206.
Without(list, h) == SelectSeq(list, LAMBDA x : x # h)

\* source.onended, lines 205-207: fires once the buffer has played to its
\* end or has been stopped.
Ended(h) ==
  /\ effect = "idle"
  /\ h \in DOMAIN sources
  /\ sources[h].state \in {"finished", "stopped"}
  /\ ~sources[h].ended
  /\ sources' = [sources EXCEPT ![h].ended = TRUE]
  /\ activeSourcesRef' = Without(activeSourcesRef, h)
  /\ UNCHANGED <<upload, codec, uncaught, effect, apiKey, ui, refs, devices, transport, nextStartTimeRef,
                 currentTime, decoding, nMsgs, lastInterrupt, cursorFrom,
                 lastSched, starts, frames, releases, closedInFlight, failure>>

\* -------------------------------------------------------------- PCM codec
\* a * m / d truncated toward zero (the store into an Int16Array truncates),
\* computed without leaving 32 bits.
MulDivTrunc(a, m, d) ==
  LET abs == IF a >= 0 THEN a ELSE -a
      q == (abs \div d) * m + ((abs % d) * m) \div d
  IN IF a >= 0 THEN q ELSE -q

\* The conversion of a number to a signed 16-bit element.
ToInt16(x) == ((x + 32768) % 65536) - 32768

\* new Uint8Array(int16.buffer): two bytes per element, low byte first.
Uint8View(int16) ==
  [i \in 1..(2 * Len(int16)) |->
     LET u == int16[(i + 1) \div 2] % 65536
     IN IF i % 2 = 1 THEN u % 256 ELSE u \div 256]

\* new Int16Array(data.buffer), for a buffer of even length.
Int16View(bytes) ==
  [i \in 1..(Len(bytes) \div 2) |->
     LET u == bytes[2 * i - 1] + 256 * bytes[2 * i]
     IN IF u >= 32768 THEN u - 65536 ELSE u]

\* btoa over the byte string: three bytes make four characters.
RECURSIVE btoa(_)
btoa(b) ==
  IF Len(b) = 0 THEN <<>>
  ELSE IF Len(b) = 1
  THEN <<b[1] \div 4, (b[1] % 4) * 16, 64, 64>>
  ELSE IF Len(b) = 2
  THEN <<b[1] \div 4, (b[1] % 4) * 16 + b[2] \div 16, (b[2] % 16) * 4, 64>>
  ELSE <<b[1] \div 4, (b[1] % 4) * 16 + b[2] \div 16,
         (b[2] % 16) * 4 + b[3] \div 64, b[3] % 64>>
       \o btoa(SubSeq(b, 4, Len(b)))

\* atob: four characters make three bytes, fewer before padding.
RECURSIVE atob(_)
atob(c) ==
  IF Len(c) < 4 THEN <<>>
  ELSE LET b1 == c[1] * 4 + c[2] \div 16
           b2 == (c[2] % 16) * 16 + c[3] \div 4
           b3 == (c[3] % 4) * 64 + c[4]
       IN (IF c[3] = 64 THEN <<b1>>
           ELSE IF c[4] = 64 THEN <<b1, b2>>
           ELSE <<b1, b2, b3>>)
          \o atob(SubSeq(c, 5, Len(c)))

\* Lines 31-38.
base64Encode(bytes) == btoa(bytes)

\* Lines 40-48.
base64Decode(base64) == atob(base64)

\* A sample passed on as it is.
NoClamp(n) == n

\* A sample clamped to [-1, 1], line 56.
Clamp(n) == IF n < -One THEN -One ELSE IF n > One THEN One ELSE n

\* Lines 51-60.
createPcmBlob(d) ==
  LET int16 == [i \in 1..Len(d) |->
                  LET s == Clamp(d[i])
                  IN ToInt16(IF s < 0 THEN MulDivTrunc(s, NegScale, One)
                                      ELSE MulDivTrunc(s, PosScale, One))]
  IN base64Encode(Uint8View(int16))

\* Lines 68-76: the channel data of the buffer, on the grid of data.
decodeAudioData(bytes) ==
  LET dataInt16 == Int16View(bytes)
  IN [i \in 1..Len(dataInt16) |-> MulDivTrunc(dataInt16[i], One, DecodeScale)]

\* The samples and the payload bytes the codec is run on.
Samples ==
  {-2 * One, -One - 1, -One, -One + 1, -NegScale - 1, -NegScale, -1, 0, 1,
   NegScale, NegScale + 1, One - 1, One, One + 1, 2 * One}
Bytes == {0, 1, 127, 128, 255}

SeqsUpTo(S, n) == UNION {[1..m -> S] : m \in 0..n}

\* A capture buffer about to be encoded, or an inbound payload about to be
\* decoded.
InitCodec ==
  /\ InitComponent
  /\ NoUpload
  /\ channelData = <<>>
  /\ \/ /\ codecPc = "input"
        /\ data \in SeqsUpTo(Samples, MaxLen)
        /\ base64Data = <<>>
     \/ /\ codecPc = "payload"
        /\ data = <<>>
        /\ base64Data \in {base64Encode(b) : b \in SeqsUpTo(Bytes, MaxBytes)}

\* base64Data = createPcmBlob(inputData), line 143.
CreatePcmBlob ==
  /\ codecPc = "input"
  /\ base64Data' = createPcmBlob(data)
  /\ codecPc' = "encoded"
  /\ UNCHANGED <<upload, data, channelData, uncaught, effect, apiKey, ui, refs, devices,
                 transport, playback, starts, frames, releases,
                 closedInFlight, failure>>

\* decodeAudioData(base64Decode(audioData), ctx), line 191: a payload of odd
\* length makes new Int16Array(data.buffer) throw.
DecodeAudioData ==
  /\ codecPc \in {"encoded", "payload"}
  /\ LET bytes == base64Decode(base64Data) IN
     IF Len(bytes) % 2 = 1
     THEN /\ codecPc' = "threw"
          /\ channelData' = channelData
     ELSE /\ codecPc' = IF codecPc = "encoded" THEN "decoded" ELSE "buffer"
          /\ channelData' = decodeAudioData(bytes)
  /\ UNCHANGED <<upload, data, base64Data, uncaught, effect, apiKey, ui, refs, devices,
                 transport, playback, starts, frames, releases,
                 closedInFlight, failure>>

\* ------------------------------------------------------------- file upload
\* waitForFileActive, line 76.
maxRetries == 300
\* The loop index above which a 404 ends the polling, line 87.
NotFoundAfter == 10

FileStates == {"ACTIVE", "FAILED", "PROCESSING"}
PollErrors == {"404", "error"}

\* The catch of the polling loop, lines 86-88: only an error whose message
\* holds "404", at a loop index above 10, is thrown on; every other error
\* is dropped and the loop goes on to its wait.
Catch(idx, message) ==
  IF idx > NotFoundAfter /\ message = "404" THEN "notFound" ELSE "sleep"

\* A file is about to be uploaded.
InitUpload ==
  /\ InitComponent
  /\ codecPc = "idle"
  /\ data = <<>>
  /\ base64Data = <<>>
  /\ channelData = <<>>
  /\ uploadPc = "upload"
  /\ attempt = 0
  /\ polls = 0
  /\ fileState = "none"

\* uploadFileToGemini, lines 98-121: an upload without uri throws; a file
\* that is ACTIVE at once is returned after a wait, any other is polled.
Upload(res) ==
  /\ uploadPc = "upload"
  /\ uploadPc' = IF res = "invalid" THEN "invalid"
                 ELSE IF res = "ACTIVE" THEN "settle" ELSE "poll"
  /\ UNCHANGED <<attempt, polls, fileState, codec, effect, apiKey, ui, refs,
                 devices, transport, playback, starts, frames, releases,
                 closedInFlight, failure, uncaught>>

\* One pass of the try block, lines 79-88: ai.files.get answers with a state
\* or throws.  The throw for FAILED (line 85) is inside the try, so it
\* lands in the catch of line 86 like an error of the call.
Poll(st) ==
  /\ uploadPc = "poll"
  /\ polls' = polls + 1
  /\ fileState' = st
  /\ uploadPc' = IF st = "ACTIVE" THEN "settle"
                 ELSE IF st = "FAILED" THEN Catch(attempt, "File processing failed")
                 ELSE IF st \in PollErrors THEN Catch(attempt, st)
                 ELSE "sleep"
  /\ UNCHANGED <<attempt, codec, effect, apiKey, ui, refs, devices, transport,
                 playback, starts, frames, releases, closedInFlight, failure,
                 uncaught>>

\* The wait of line 89 is over: i++ and the loop test of line 78; after the
\* last pass the Timeout error of line 91 is thrown.
Sleep ==
  /\ uploadPc = "sleep"
  /\ attempt' = attempt + 1
  /\ uploadPc' = IF attempt + 1 < maxRetries THEN "poll" ELSE "timeout"
  /\ UNCHANGED <<polls, fileState, codec, effect, apiKey, ui, refs, devices,
                 transport, playback, starts, frames, releases,
                 closedInFlight, failure, uncaught>>

\* The wait after ACTIVE (lines 82-83, 109) is over: the function returns.
Settle ==
  /\ uploadPc = "settle"
  /\ uploadPc' = "returned"
  /\ UNCHANGED <<attempt, polls, fileState, codec, effect, apiKey, ui, refs,
                 devices, transport, playback, starts, frames, releases,
                 closedInFlight, failure, uncaught>>

\* ----------------------------------------------------------- specifications
\* The session lifecycle: the effect, startSession, the transport callbacks.
Lifecycle(maxStarts) ==
  \/ Mount
  \/ Open(maxStarts)
  \/ CloseDestructor
  \/ CloseEffect
  \/ \E k \in Sessions : ResumedOut(k)
  \/ \E k \in Sessions : ResumedIn(k)
  \/ \E k \in Sessions : MicGranted(k)
  \/ \E k \in Sessions, err \in {"NotAllowedError", "NotFoundError", "OtherError"} :
       MicFailed(k, err)
  \/ \E k \in Sessions : TransportOpen(k)
  \/ \E k \in Sessions : TransportClosed(k)
  \/ \E k \in Sessions : TransportError(k)
  \/ \E k \in Sessions : ConnectResolve(k)
  \/ \E k \in Sessions : ConnectReject(k)

\* The capture pipeline: frame callbacks and the mic button.
Capture ==
  \/ ToggleMic
  \/ \E k \in Sessions : Frame(k, MaxFrames)

\* The playback scheduler: inbound messages, the device clock, completions.
Playback(maxMsgs, maxTime) ==
  \/ \E k \in Sessions, d \in {0} \cup Durations, intr \in BOOLEAN, bad \in BOOLEAN :
       Deliver(k, d, intr, bad, maxMsgs)
  \/ DecodeDone
  \/ \E k \in Sessions : Tick(k, maxTime)
  \/ \E h \in Handles : Ended(h)

\* Session 1 has been started: the state after Mount, Open, ResumedOut(1),
\* ResumedIn(1) and MicGranted(1) and, if opened, after TransportOpen(1) and
\* ConnectResolve(1) as well.
InitStarted(opened) ==
  /\ effect = "idle"
  /\ apiKey = TRUE
  /\ isOpen = TRUE
  /\ isActive = opened
  /\ isMicOn = TRUE
  /\ status = (IF opened THEN StConnected ELSE StConnecting)
  /\ audioContextRef = 1
  /\ inputAudioContextRef = 1
  /\ mediaStreamRef = 1
  /\ processorRef = 1
  /\ sourceRef = 1
  /\ sessionPromiseRef = 1
  /\ nextStartTimeRef = 0
  /\ activeSourcesRef = <<>>
  /\ nStarts = 1
  /\ pc = [k \in Sessions |-> IF k = 1 THEN "done" ELSE "none"]
  /\ micOnAtStart = [k \in Sessions |-> TRUE]
  /\ outCtx = [k \in Sessions |-> IF k = 1 THEN "running" ELSE "none"]
  /\ inCtx = [k \in Sessions |-> IF k = 1 THEN "running" ELSE "none"]
  /\ stream = [k \in Sessions |-> IF k = 1 THEN "live" ELSE "none"]
  /\ srcNode = [k \in Sessions |-> IF k = 1 THEN "connected" ELSE "none"]
  /\ procNode = [k \in Sessions |-> IF k = 1 THEN "connected" ELSE "none"]
  /\ promise = [k \in Sessions |->
                  IF k # 1 THEN "none" ELSE IF opened THEN "resolved" ELSE "pending"]
  /\ chan = [k \in Sessions |->
               IF k # 1 THEN "none" ELSE IF opened THEN "open" ELSE "connecting"]
  /\ thenQueue = [k \in Sessions |-> <<>>]
  /\ transportLog = <<>>
  /\ frames = <<>>
  /\ currentTime = [k \in Sessions |-> 0]
  /\ sources = <<>>
  /\ decoding = <<>>
  /\ nMsgs = 0
  /\ lastInterrupt = 0
  /\ cursorFrom = "start"
  /\ lastSched = 0
  /\ releases = [k \in Sessions |-> NoRelease]
  /\ closedInFlight = {}
  /\ failure = [k \in Sessions |-> "none"]
  /\ uncaught = 0
  /\ NoUpload
  /\ codecPc = "idle"
  /\ data = <<>>
  /\ base64Data = <<>>
  /\ channelData = <<>>

\* Session 1 is Active.
InitActive == InitStarted(TRUE)

\* Session 1 is Connecting: connect has been called and not yet answered.
InitConnecting == InitStarted(FALSE)

Next == Lifecycle(MaxStarts) \/ \E k \in Sessions : Tick(k, MaxTime)

NextRace == Lifecycle(MaxRaceStarts)

NextCapture == Lifecycle(MaxStarts) \/ Capture

NextPlay == Playback(MaxPlayMsgs, MaxPlayTime)

NextTeardown ==
  \/ Mount
  \/ CloseDestructor
  \/ CloseEffect
  \/ \E k \in Sessions : TransportClosed(k)
  \/ \E k \in Sessions : TransportError(k)
  \/ Playback(MaxMsgs, MaxTime)

\* The lifecycle of the component's sessions.
Spec == Init /\ [][Next]_vars

\* The lifecycle with a second startSession racing the first.
SpecRace == Init /\ [][NextRace]_vars

\* The lifecycle with the capture pipeline running.
SpecCapture == Init /\ [][NextCapture]_vars

\* The playback scheduler of one Active session.
SpecPlay == InitActive /\ [][NextPlay]_vars

\* Teardown, of a component just mounted and of an Active session playing.
SpecTeardown == (Init \/ InitActive) /\ [][NextTeardown]_vars

\* Teardown in which release steps may fail.
NextFaults ==
  \/ NextTeardown
  \/ \E i \in DOMAIN ReleaseSteps : CloseDestructorFailing(ReleaseSteps[i])
  \/ \E i \in DOMAIN ReleaseSteps : CloseEffectFailing(ReleaseSteps[i])

\* The capture pipeline of one session from connect on, with failing sends.
NextSend ==
  \/ \E k \in Sessions : TransportOpen(k)
  \/ \E k \in Sessions : TransportClosed(k)
  \/ \E k \in Sessions : TransportError(k)
  \/ \E k \in Sessions : ConnectResolve(k)
  \/ \E k \in Sessions : ConnectReject(k)
  \/ Capture
  \/ \E k \in Sessions : FrameSendFails(k, MaxFrames)

NextOutbound == NextSend \/ CloseDestructor \/ CloseEffect

NextSession == Playback(MaxMsgs, MaxTime) \/ Capture

\* The end of the last buffer of context k that is still to sound: the
\* device clock of a running context goes on at least until then.
LastEnd(k) ==
  LET E == {sources[h].start + sources[h].dur :
              h \in {x \in DOMAIN sources :
                       /\ sources[x].ctx = k
                       /\ sources[x].state \in {"scheduled", "playing"}}}
  IN IF E = {} THEN 0 ELSE CHOOSE e \in E : \A x \in E : x <= e

\* An Active session whose clock runs on while a buffer is to sound, with
\* the overlay closed at any moment.
NextLive ==
  \/ CloseDestructor
  \/ CloseEffect
  \/ \E k \in Sessions, d \in {0} \cup Durations, intr \in BOOLEAN, bad \in BOOLEAN :
       Deliver(k, d, intr, bad, MaxMsgs)
  \/ DecodeDone
  \/ \E k \in Sessions : Tick(k, Max(MaxTime, LastEnd(k)))
  \/ \E h \in Handles : Ended(h)

\* The event loop runs every queued callback: a handler suspended at the
\* decode resumes, the clock of a running context advances, onended fires
\* for a finished or stopped source, and React runs the effect body right
\* after the destructor.
Fairness ==
  /\ WF_vars(DecodeDone)
  /\ WF_vars(CloseEffect)
  /\ \A k \in Sessions : WF_vars(Tick(k, Max(MaxTime, LastEnd(k))))
  /\ \A h \in Handles : WF_vars(Ended(h))

NextCodec == CreatePcmBlob \/ DecodeAudioData

NextUpload ==
  \/ \E res \in {"ACTIVE", "PROCESSING", "invalid"} : Upload(res)
  \/ \E st \in FileStates \cup PollErrors : Poll(st)
  \/ Sleep
  \/ Settle

\* Teardown, as under SpecTeardown, with release calls that may fail.
SpecFaults == (Init \/ InitActive) /\ [][NextFaults]_vars

\* One session from the call of connect on: capture and outbound sends.
SpecSend == InitConnecting /\ [][NextSend]_vars

\* The upload of one file and the polling of its state.
SpecUpload == InitUpload /\ [][NextUpload]_vars

\* An Active session under the fairness of the event loop.
SpecLive == InitActive /\ [][NextLive]_vars /\ Fairness

\* The same session with the overlay closed at any moment.
SpecOutbound == InitConnecting /\ [][NextOutbound]_vars

\* One Active session: the playback scheduler and the capture pipeline.
SpecSession == InitActive /\ [][NextSession]_vars

\* The PCM codec on its own: encode, then decode.
SpecCodec == InitCodec /\ [][NextCodec]_vars

\* ------------------------------------------------------------------- claims
MicLive(k) == stream[k] = "live"
DeviceOpen(k) == outCtx[k] = "running" \/ inCtx[k] = "running"
CaptureWired(k) == srcNode[k] = "connected" \/ procNode[k] = "connected"
CloseQueued(k) == \E i \in DOMAIN thenQueue[k] : thenQueue[k][i].op = "close"
ChannelLive(k) == chan[k] \in {"connecting", "open"} /\ ~CloseQueued(k)
Released(k) == ~MicLive(k) /\ ~DeviceOpen(k) /\ ~CaptureWired(k) /\ ~ChannelLive(k)
Settled == \A k \in Sessions : ~InFlight(k) /\ promise[k] # "pending"

\* C1: when cleanup has overtaken a startSession still in flight, then once
\* both have run to completion (no invocation at an await, no connect
\* promise unresolved) no microphone track is live, no audio device open,
\* no capture node connected, no channel open, and the session is not Active.
C1_RacedCloseLeavesNothingOpen ==
  (effect = "idle" /\ ~isOpen /\ Settled) =>
     /\ \A k \in closedInFlight : Released(k)
     /\ closedInFlight # {} => ~isActive

\* C2: every frame handed to the transport, or queued for it, was captured
\* while isMicOn was true: a frame that fires with the mic off is discarded.
C2_MutedFramesDiscarded ==
  /\ \A i \in DOMAIN transportLog :
       transportLog[i].op = "send" => frames[transportLog[i].f].mic
  /\ \A k \in Sessions : \A i \in DOMAIN thenQueue[k] :
       thenQueue[k][i].op = "send" => frames[thenQueue[k][i].f].mic

\* C3: for buffers scheduled one after the other with no Interrupted between
\* them, start(i+1) >= start(i) + d(i), with equality whenever chunk i+1 is
\* handled no later than start(i) + d(i); three chunks of one unit (256 ms)
\* handled at time 0 start at 0, 1, 2.
C3_Gapless ==
  /\ \A h \in DOMAIN sources :
       sources[h].prev # 0 =>
         LET end == sources[sources[h].prev].start + sources[sources[h].prev].dur IN
         /\ sources[h].start >= end
         /\ sources[h].now <= end => sources[h].start = end
  /\ (/\ Len(sources) >= 3
      /\ \A h \in 1..3 : /\ sources[h].dur = 1
                         /\ sources[h].now = 0
                         /\ sources[h].prev = h - 1
                         /\ sources[h].after # "interrupt")
     => \A h \in 1..3 : sources[h].start = h - 1

\* Three chunks of one unit, all handled at time 0, queued at 0, 1, 2.
C3_ThreeChunksQueued ==
  /\ Len(sources) >= 3
  /\ \A h \in 1..3 : /\ sources[h].dur = 1
                     /\ sources[h].now = 0
                     /\ sources[h].prev = h - 1
                     /\ sources[h].start = h - 1

\* The parts of C4 that speak of one step.
C4_InterruptStep ==
  lastInterrupt' # lastInterrupt =>
     /\ activeSourcesRef' = <<>>
     /\ audioContextRef' # 0 => nextStartTimeRef' = currentTime'[audioContextRef']
     /\ \A h \in DOMAIN sources : sources'[h].state \notin {"scheduled", "playing"}

C4_StoppedStays ==
  \A h \in DOMAIN sources :
     sources[h].state = "stopped" => sources'[h].state = "stopped"

\* C4: the step that handles an Interrupted event leaves PendingSources empty,
\* nextStartTime at the device clock and no buffer scheduled or sounding; a
\* stopped buffer never sounds again; and the first buffer scheduled after an
\* Interrupted starts at the device clock of its own handling.
C4_InterruptResets ==
  /\ [][C4_InterruptStep /\ C4_StoppedStays]_vars
  /\ [](\A h \in DOMAIN sources :
          sources[h].after = "interrupt" => sources[h].start = sources[h].now)

\* An Interrupted stopped two queued buffers and a later chunk was scheduled.
C4_TwoStoppedThenNext ==
  \E h \in DOMAIN sources :
     /\ h >= 3
     /\ sources[h].after = "interrupt"
     /\ sources[h].now > 0
     /\ sources[h].start = sources[h].now
     /\ \A g \in 1..2 : sources[g].state = "stopped" /\ sources[g].stops = 1

\* C5: no audio chunk delivered before an Interrupted event is scheduled (and
\* registered in PendingSources) after that event has been handled.
C5_NoStaleChunkAfterInterrupt ==
  \A h \in DOMAIN sources : sources[h].msg > sources[h].intr

\* The parts of C6 that speak of one step.
C6_DeniedStep ==
  \A k \in Sessions :
     (failure[k] = "none" /\ failure'[k] = "NotAllowedError") =>
        /\ pc[k] = "getMic"
        /\ status' = StDenied
        /\ status' \notin {StNoMic, StFailedInit, StConnecting, StConnected}
        /\ isActive' = isActive
        /\ chan' = chan /\ promise' = promise

C6_OpenStep ==
  \A k \in Sessions :
     (pc[k] = "none" /\ pc'[k] = "resumeOut") => status' = StConnecting

\* C6: when getUserMedia fails with NotAllowedError the status becomes the
\* permission-denied one, which differs from the no-microphone one and from
\* the Connecting status that startSession set; that invocation never calls
\* connect, and a component without a transport is never Active.
C6_PermissionDenied ==
  /\ [][C6_DeniedStep /\ C6_OpenStep]_vars
  /\ [](\A k \in Sessions :
          failure[k] = "NotAllowedError" =>
             pc[k] = "failed" /\ chan[k] = "none" /\ promise[k] = "none")
  /\ []((\A k \in Sessions : chan[k] = "none") => ~isActive)

\* Invocation 1 was refused the microphone.
C6_DeniedReached ==
  /\ failure[1] = "NotAllowedError"
  /\ status = StDenied
  /\ chan[1] = "none"
  /\ ~isActive

\* The step of C7.
C7_ErrorStep ==
  \A k \in Sessions :
     (chan'[k] # chan[k] /\ chan'[k] \in {"errored", "connectFailed"})
     => (~isActive' /\ status' # StConnecting)

\* C7: the step in which the transport reports an Error event (onerror),
\* while connecting or in mid-session, leaves the session neither Active nor
\* Connecting.
C7_TransportErrorFails == [][C7_ErrorStep]_vars

\* C8: at most one microphone stream, one capture pipeline and one transport
\* channel exist that have not been released.
C8_OneSessionLive ==
  /\ Cardinality({k \in Sessions : MicLive(k)}) <= 1
  /\ Cardinality({k \in Sessions : CaptureWired(k)}) <= 1
  /\ Cardinality({k \in Sessions : ChannelLive(k)}) <= 1

\* The step of C9: a cleanup that follows a cleanup, or starts from nothing.
C9_SecondCleanupStep ==
  effect \in {"reclose", "unmounted"} =>
     UNCHANGED <<apiKey, ui, refs, devices, transport, playback, starts,
                 frames, releases, closedInFlight, failure>>

\* C9: cleanup on a component where nothing was started changes nothing; a
\* second cleanup in a row changes nothing; after cleanup every ref is null,
\* PendingSources is empty and the session is not Active; nothing is released
\* or stopped twice.
C9_CleanupIdempotent ==
  /\ [][C9_SecondCleanupStep]_vars
  /\ [](effect = "reclose" =>
          /\ audioContextRef = 0 /\ inputAudioContextRef = 0
          /\ mediaStreamRef = 0 /\ processorRef = 0 /\ sourceRef = 0
          /\ sessionPromiseRef = 0
          /\ activeSourcesRef = <<>>
          /\ ~isActive)
  /\ [](\A k \in Sessions :
          /\ releases[k].mic <= 1 /\ releases[k].src <= 1
          /\ releases[k].proc <= 1 /\ releases[k].out <= 1
          /\ releases[k].inp <= 1 /\ releases[k].chan <= 1)
  /\ [](\A h \in DOMAIN sources : sources[h].stops <= 1)

\* An Active session with a buffer pending was closed: cleanup ran twice and
\* it was cleanup (no Interrupted was ever handled) that stopped the buffer.
C9_ClosedTwiceWithPending ==
  /\ effect = "idle"
  /\ ~isOpen
  /\ releases[1].mic = 1 /\ releases[1].out = 1 /\ releases[1].chan = 1
  /\ lastInterrupt = 0
  /\ \E h \in DOMAIN sources : sources[h].state = "stopped" /\ sources[h].stops = 1
  /\ activeSourcesRef = <<>>

\* C10: whenever the session shows as Closed (status "Connection closed.",
\* not Active) every resource is released: no microphone track live, no
\* capture node connected (so no further frame is sent), no audio device
\* open, PendingSources empty.
C10_ClosedMeansReleased ==
  (status = StClosed /\ ~isActive) =>
     /\ \A k \in Sessions : ~MicLive(k) /\ ~CaptureWired(k) /\ ~DeviceOpen(k)
     /\ activeSourcesRef = <<>>

\* The steps of C11: entering Active, entering Failed.
C11_ActiveStep ==
  (~isActive /\ isActive') =>
     /\ isOpen
     /\ status = StConnecting
     /\ \E k \in Sessions : chan[k] = "connecting" /\ chan'[k] = "open"

C11_FailedStep ==
  (status' # status /\ status' \in {StDenied, StNoMic, StFailedInit}) =>
     status = StConnecting \/ ~apiKey

\* C11: the session becomes Active only in a step that delivers the
\* transport's open event while the component is open and Connecting, so never
\* after cleanup unless startSession was called anew; the failure statuses of
\* startSession are entered from Connecting.
C11_OnlySpecifiedTransitions == [][C11_ActiveStep /\ C11_FailedStep]_vars

\* C12: for samples in [-1, 1], decode(encode(samples)) has the length of
\* samples and each reconstructed sample is within 1/32767 of the original.
C12_RoundTrip ==
  (codecPc = "decoded" /\ \A i \in DOMAIN data : data[i] >= -One /\ data[i] <= One) =>
     /\ Len(channelData) = Len(data)
     /\ \A i \in DOMAIN data :
          LET diff == IF data[i] >= channelData[i]
                      THEN data[i] - channelData[i]
                      ELSE channelData[i] - data[i]
          IN diff * PosScale <= One

\* The steps of C13: the scheduling step and the interrupt step.
C13_ScheduleStep ==
  Len(sources') > Len(sources) =>
     LET h == Len(sources')
         src == sources'[h]
     IN /\ h = Len(sources) + 1
        /\ src.now = currentTime[src.ctx]
        /\ src.start = Max(src.now, nextStartTimeRef)
        /\ IF lastInterrupt' = lastInterrupt
           THEN /\ nextStartTimeRef' = src.start + src.dur
                /\ activeSourcesRef' = Append(activeSourcesRef, h)
           ELSE /\ nextStartTimeRef' = src.now
                /\ activeSourcesRef' = <<>>
                /\ src.state = "stopped"

C13_ResetStep ==
  lastInterrupt' # lastInterrupt =>
     /\ activeSourcesRef' = <<>>
     /\ \A i \in DOMAIN activeSourcesRef :
          sources'[activeSourcesRef[i]].state \notin {"scheduled", "playing"}
     /\ audioContextRef # 0 =>
          /\ nextStartTimeRef' = currentTime[audioContextRef]
          /\ lastSched' = 0

C13_CursorStep ==
  nextStartTimeRef' # nextStartTimeRef =>
     Len(sources') > Len(sources) \/ lastInterrupt' # lastInterrupt

\* C13: the scheduling step reads the cursor, starts the buffer, writes the
\* cursor and registers the handle in one step, the interrupt step stops and
\* clears the handles and resets the cursor in one step, and nothing else
\* writes the cursor; so nextStartTime is always the end time of the handle
\* registered last since the last reset, or a reset time (no later than the
\* device clock) when none was registered since.
C13_CursorIsLastEnd ==
  /\ [][C13_ScheduleStep /\ C13_ResetStep /\ C13_CursorStep]_vars
  /\ [](IF lastSched # 0
        THEN /\ lastSched \in DOMAIN sources
             /\ nextStartTimeRef =
                  sources[lastSched].start + sources[lastSched].dur
        ELSE /\ audioContextRef # 0
             /\ nextStartTimeRef <= currentTime[audioContextRef])

\* Two handlers were suspended at the decode await at once, an Interrupted
\* was handled, and a buffer was scheduled after it while another handler
\* was still suspended.
C13_InterleavedHandlers ==
  /\ lastInterrupt # 0
  /\ lastSched # 0
  /\ sources[lastSched].after = "interrupt"
  /\ decoding # <<>>
  /\ nextStartTimeRef > currentTime[audioContextRef]

\* The step of C14.
C14_CursorStep ==
  nextStartTimeRef' < nextStartTimeRef =>
     /\ lastInterrupt' # lastInterrupt
     /\ audioContextRef # 0
     /\ nextStartTimeRef' = currentTime[audioContextRef]

\* C14: within one session no step lowers nextStartTime (no AudioDelta
\* handling, completion callback, capture frame or mic toggle) except the
\* handling of an Interrupted event, which sets it to the device clock.
C14_CursorMonotonic == [][C14_CursorStep]_vars

\* An Interrupted lowered the cursor below the end of a buffer it stopped,
\* after a capture frame had fired and the mic had been toggled.
C14_LoweredByInterrupt ==
  /\ cursorFrom = "interrupt"
  /\ \E h \in DOMAIN sources :
       /\ sources[h].state = "stopped"
       /\ sources[h].start + sources[h].dur > nextStartTimeRef
  /\ frames # <<>>
  /\ ~isMicOn

Pending(h) == \E i \in DOMAIN activeSourcesRef : activeSourcesRef[i] = h

C15_RemovalStep ==
  \A h \in DOMAIN sources :
     (Pending(h) /\ ~Pending(h)') =>
        \/ ~sources[h].ended /\ sources'[h].ended
        \/ lastInterrupt' # lastInterrupt /\ activeSourcesRef' = <<>>
        \/ effect' # effect /\ activeSourcesRef' = <<>>

C15_CallbackStep ==
  \A h \in DOMAIN sources :
     (~sources[h].ended /\ sources'[h].ended) =>
        /\ ~Pending(h)'
        /\ \A g \in DOMAIN sources : (g # h /\ Pending(g)) => Pending(g)'
        /\ Len(activeSourcesRef') >= Len(activeSourcesRef) - 1

C15_NeverBackStep ==
  \A h \in DOMAIN sources : ~Pending(h) => ~Pending(h)'

NeverSounded(h) ==
  sources[h].state = "stopped" /\ sources[h].stopAt <= sources[h].start

\* The time at which buffer h falls silent: its end, or the time it was
\* stopped at if that came first.
SoundEnd(h) ==
  IF sources[h].state = "stopped" /\ sources[h].stopAt < sources[h].start + sources[h].dur
  THEN sources[h].stopAt
  ELSE sources[h].start + sources[h].dur

\* C16 as stated: the intervals [start, start + d) of any two buffers not
\* force-stopped before they sound do not overlap, and no buffer is scheduled
\* to start before the device clock of its scheduling.
C16_NoOverlap ==
  /\ \A h \in DOMAIN sources : sources[h].start >= sources[h].now
  /\ \A g, h \in DOMAIN sources :
       (g < h /\ ~NeverSounded(g) /\ ~NeverSounded(h)) =>
          \/ sources[g].start + sources[g].dur <= sources[h].start
          \/ sources[h].start + sources[h].dur <= sources[g].start

\* C16, amended: the intervals in which any two buffers sound, [start, start
\* + d) cut short at the time of a forced stop, do not overlap, and no buffer
\* is scheduled to start before the device clock of its scheduling.
C16_NoOverlapInSound ==
  /\ \A h \in DOMAIN sources : sources[h].start >= sources[h].now
  /\ \A g, h \in DOMAIN sources :
       (g < h /\ ~NeverSounded(g) /\ ~NeverSounded(h)) =>
          \/ SoundEnd(g) <= sources[h].start
          \/ SoundEnd(h) <= sources[g].start

\* A buffer was stopped by an Interrupted while it sounded, and the next
\* buffer started before the first one's nominal end.
C16_StoppedMidPlay ==
  \E g, h \in DOMAIN sources :
     /\ g < h
     /\ sources[g].state = "stopped"
     /\ sources[g].stopAt > sources[g].start
     /\ sources[h].state \in {"playing", "finished"}
     /\ sources[h].start = sources[g].stopAt
     /\ sources[h].start < sources[g].start + sources[g].dur

\* The step of C17: the start time of the buffer a step schedules, and
\* the cursor it leaves when no Interrupted is handled in the same step.
C17_StartStep ==
  Len(sources') > Len(sources) =>
     LET src == sources'[Len(sources')]
         now == currentTime[src.ctx]
         late == now > nextStartTimeRef
     IN /\ src.now = now
        /\ src.start = IF late THEN now ELSE nextStartTimeRef
        /\ src.start >= now /\ src.start >= nextStartTimeRef
        /\ lastInterrupt' = lastInterrupt =>
             /\ nextStartTimeRef' = src.start + src.dur
             /\ late => nextStartTimeRef' = now + src.dur

\* C17: every scheduled buffer starts at max(now, nextStartTime); one
\* handled later than nextStartTime starts exactly at now, not at the stale
\* cursor, and nextStartTime becomes now + d.
C17_LateStartsNow == [][C17_StartStep]_vars

\* A chunk was handled after the end of the chunk before it: it started at
\* the device clock, leaving a gap, and the cursor is its end.
C17_LateArrival ==
  /\ lastSched # 0
  /\ sources[lastSched].prev # 0
  /\ LET h == lastSched
         end == sources[sources[h].prev].start + sources[sources[h].prev].dur
     IN /\ sources[h].now > end
        /\ sources[h].start = sources[h].now
        /\ nextStartTimeRef = sources[h].now + sources[h].dur

\* The step of C18: a cleanup in which one release step fails.
C18_FailedReleaseStep ==
  (effect' # effect /\ effect' \in {"reclose", "idle"}) =>
     /\ uncaught' = uncaught
     /\ audioContextRef' = 0 /\ inputAudioContextRef' = 0
     /\ mediaStreamRef' = 0 /\ processorRef' = 0 /\ sourceRef' = 0
     /\ sessionPromiseRef' = 0
     /\ activeSourcesRef' = <<>>
     /\ ~isActive'

\* C18: a cleanup in which a release step fails still does not throw and
\* still performs every later step: every ref is null afterwards,
\* PendingSources is empty and the session is not Active.
C18_TeardownNeverThrows == [][C18_FailedReleaseStep]_vars

\* The steps of C19: the handler of a malformed payload resumes from the
\* decode await; the handler of a well-formed one does.
C19_DropStep ==
  (Len(decoding') < Len(decoding) /\ Head(decoding).bad) =>
     /\ decoding' = Tail(decoding)
     /\ UNCHANGED <<sources, activeSourcesRef, nextStartTimeRef, ui, refs,
                    devices, transport>>

C19_GoodStep ==
  (Len(decoding') < Len(decoding) /\ ~Head(decoding).bad) =>
     LET h == Head(decoding)
         src == sources'[Len(sources')]
     IN /\ Len(sources') = Len(sources) + 1
        /\ src.msg = h.id /\ src.dur = h.dur
        /\ src.start = Max(currentTime[h.ctx], nextStartTimeRef)

\* C19: the handler of an odd-length payload ends at the decode without
\* scheduling a buffer and without touching nextStartTime, PendingSources,
\* the status, the Active flag, the refs, the devices or the transport; no
\* message is handled twice; a well-formed payload handled afterwards is
\* scheduled at max(now, nextStartTime) as ever.
C19_DecodeErrorAbsorbed ==
  /\ [][C19_DropStep /\ C19_GoodStep]_vars
  /\ [](\A h \in DOMAIN sources : \A i \in DOMAIN decoding :
          /\ decoding[i].id # sources[h].msg
          /\ \A j \in DOMAIN decoding : decoding[j].id = decoding[i].id => j = i)
  /\ [](Len(sources) + Len(decoding) <= nMsgs)
  /\ [](status = StConnected /\ isActive)

\* Message 1 carried a malformed payload and was dropped; message 2 was
\* scheduled, and is the only buffer.
C19_DroppedThenScheduled ==
  /\ nMsgs >= 2
  /\ lastInterrupt = 0
  /\ decoding = <<>>
  /\ Len(sources) = 1
  /\ sources[1].msg = 2
  /\ activeSourcesRef = <<1>>
  /\ nextStartTimeRef = sources[1].start + sources[1].dur

\* How often frame f was handed to the transport, and how often it is
\* queued on connect promise k to be.
Logged(f) ==
  Cardinality({i \in DOMAIN transportLog :
                 transportLog[i].f = f /\ transportLog[i].op \in {"send", "sendError"}})
Queued(k, f) ==
  Cardinality({i \in DOMAIN thenQueue[k] :
                 thenQueue[k][i].op = "send" /\ thenQueue[k][i].f = f})

\* The steps of C20: a send throws; the connect promise rejects with sends
\* queued on it.
C20_FailStep ==
  (/\ Len(frames') > Len(frames)
   /\ Len(transportLog') > Len(transportLog)
   /\ transportLog'[Len(transportLog')].op = "sendError") =>
     /\ transportLog' = Append(transportLog, transportLog'[Len(transportLog')])
     /\ Len(frames') = Len(frames) + 1
     /\ UNCHANGED <<ui, refs, devices, promise, chan, thenQueue, playback>>

C20_RejectStep ==
  \A k \in Sessions :
     (promise[k] = "pending" /\ promise'[k] = "rejected") =>
        /\ thenQueue'[k] = <<>>
        /\ Len(transportLog') >= Len(transportLog)
        /\ \A i \in DOMAIN transportLog' :
             IF i <= Len(transportLog) THEN transportLog'[i] = transportLog[i]
             ELSE transportLog'[i].op = "sendError"
        /\ UNCHANGED <<ui, refs, devices, frames, playback>>

\* C20: a send that fails changes nothing but the log (not the status, the
\* Active flag, the refs, the capture nodes or the queue), so later frame
\* callbacks fire and send as before; sends queued on a connect promise that
\* rejects are dropped; and every captured frame is handed to the transport
\* at most once, failed or not.
C20_SendFailureOnlyLogged ==
  /\ [][C20_FailStep /\ C20_RejectStep]_vars
  /\ [](\A f \in DOMAIN frames :
          /\ Logged(f) <= 1
          /\ \A k \in Sessions : Logged(f) + Queued(k, f) <= 1
          /\ \A k, l \in Sessions : (k # l /\ Queued(k, f) > 0) => Queued(l, f) = 0)

\* The send of frame 1 failed and frame 2 was sent after it.
C20_FailedThenSent ==
  /\ Len(transportLog) = 2
  /\ transportLog[1] = [op |-> "sendError", s |-> 1, f |-> 1]
  /\ transportLog[2] = [op |-> "send", s |-> 1, f |-> 2]
  /\ status = StConnected /\ isActive

\* The steps of C21: a capture callback fires while the connect promise is
\* pending; the promise resolves; the promise rejects.
C21_PendingFrameStep ==
  (/\ Len(frames') > Len(frames)
   /\ sessionPromiseRef # 0
   /\ promise[sessionPromiseRef] = "pending"
   /\ micOnAtStart[frames'[Len(frames')].by]) =>
     /\ thenQueue' = [thenQueue EXCEPT ![sessionPromiseRef] =
                        Append(@, [op |-> "send", f |-> Len(frames')])]
     /\ UNCHANGED <<transportLog, ui, refs, devices, promise, chan, uncaught>>

C21_ResolveStep ==
  \A k \in Sessions :
     (promise[k] = "pending" /\ promise'[k] = "resolved") =>
        /\ thenQueue'[k] = <<>>
        /\ Len(transportLog') = Len(transportLog) + Len(thenQueue[k])
        /\ \A i \in DOMAIN thenQueue[k] :
             /\ transportLog'[Len(transportLog) + i].s = k
             /\ transportLog'[Len(transportLog) + i].op = thenQueue[k][i].op
             /\ transportLog'[Len(transportLog) + i].f = thenQueue[k][i].f

C21_RejectStep ==
  \A k \in Sessions :
     (promise[k] = "pending" /\ promise'[k] = "rejected") =>
        /\ thenQueue'[k] = <<>>
        /\ Len(transportLog') = Len(transportLog) + CountOp(thenQueue[k], "send")
        /\ \A i \in DOMAIN thenQueue[k] :
             thenQueue[k][i].op = "send" =>
                \E j \in DOMAIN transportLog' :
                   /\ j > Len(transportLog)
                   /\ transportLog'[j] =
                        [op |-> "sendError", s |-> k, f |-> thenQueue[k][i].f]
        /\ UNCHANGED <<ui, refs, devices, frames, uncaught>>

\* C21: a capture callback that fires while connect is unresolved only
\* queues its frame (nothing is thrown, nothing else changes); nothing is
\* handed to a transport whose connect is unresolved; when the connect
\* resolves, the queued frames are handed over; when it rejects, each queued
\* frame is dropped with one logged error, none is ever sent, and the capture
\* nodes stay wired.
C21_FramesWhileConnecting ==
  /\ [][C21_PendingFrameStep /\ C21_ResolveStep /\ C21_RejectStep]_vars
  /\ [](\A i \in DOMAIN transportLog :
          /\ promise[transportLog[i].s] # "pending"
          /\ promise[transportLog[i].s] = "rejected" => transportLog[i].op = "sendError")

\* A frame was queued while connect was unresolved, the connect failed, the
\* frame was dropped with a logged error and a later frame still fired.
C21_DroppedOnReject ==
  /\ promise[1] = "rejected"
  /\ Len(frames) = 2
  /\ frames[1].conn = "pending" /\ frames[2].conn = "rejected"
  /\ transportLog = <<[op |-> "sendError", s |-> 1, f |-> 1],
                      [op |-> "sendError", s |-> 1, f |-> 2]>>
  /\ thenQueue[1] = <<>>
  /\ procNode[1] = "connected"

\* C22: in every invocation of startSession the microphone is acquired
\* before an audio device is opened (so an invocation refused the microphone
\* has opened none), the devices are opened before the capture nodes are
\* wired, and the nodes are wired before connect is called.
C22_StartOrder ==
  \A k \in Sessions :
     /\ (outCtx[k] # "none" \/ inCtx[k] # "none") => stream[k] # "none"
     /\ failure[k] \in {"NotAllowedError", "NotFoundError"} =>
          outCtx[k] = "none" /\ inCtx[k] = "none"
     /\ (srcNode[k] # "none" \/ procNode[k] # "none") =>
          outCtx[k] # "none" /\ inCtx[k] # "none"
     /\ chan[k] # "none" => srcNode[k] # "none" /\ procNode[k] # "none"

ErrorStatuses == {StError, StDenied, StNoMic, StFailedInit}

\* The step of C23.
C23_StatusStep ==
  (status \in ErrorStatuses /\ status' \notin ErrorStatuses) =>
     /\ status' = StConnecting
     /\ nStarts' = nStarts + 1

\* C23: once the status shows an error (of start-up or of the transport), no
\* later event replaces it by a status that is no error; only a new
\* startSession, which resolves the condition, does.
C23_ErrorStatusStays == [][C23_StatusStep]_vars

\* The steps of C24: a step of the capture side (a frame callback, the mic
\* button) and a step of the playback side (a message delivered, a handler
\* resumed from the decode, a completion callback).
C24_CaptureStep ==
  (Len(frames') > Len(frames) \/ isMicOn' # isMicOn) =>
     UNCHANGED <<nextStartTimeRef, activeSourcesRef, sources, decoding, nMsgs,
                 lastInterrupt, currentTime, isActive, status, isOpen, chan,
                 promise, audioContextRef, outCtx>>

C24_PlaybackStep ==
  (\/ nMsgs' # nMsgs
   \/ Len(decoding') < Len(decoding)
   \/ \E h \in DOMAIN sources : sources'[h].ended # sources[h].ended) =>
     UNCHANGED <<isMicOn, micOnAtStart, frames, thenQueue, transportLog,
                 mediaStreamRef, sourceRef, processorRef, inputAudioContextRef,
                 sessionPromiseRef, stream, srcNode, procNode, inCtx>>

\* C24: a capture-frame callback or a press of the mic button leaves
\* nextStartTime, PendingSources, the buffers and the session state as they
\* were; the handling of an AudioDelta, of an Interrupted and of a completion
\* leaves isMicOn, the captured frames, the outbound queue and the capture
\* devices as they were.
C24_PipelinesIndependent == [][C24_CaptureStep /\ C24_PlaybackStep]_vars

\* Both pipelines have run: a frame was sent with buffers pending, the mic
\* was switched off, an Interrupted was handled and a completion fired.
C24_BothPipelinesRan ==
  /\ frames # <<>>
  /\ ~isMicOn
  /\ lastInterrupt # 0
  /\ \E h \in DOMAIN sources : sources[h].ended
  /\ \E i \in DOMAIN transportLog : transportLog[i].op = "send"

\* C25: once teardown has run (the output context reference is cleared and
\* no start has followed), PendingSources is empty: a message delivered after
\* teardown, or one whose decode was suspended when teardown ran, registers
\* no handle.
C25_EmptyAfterTeardown ==
  (effect = "idle" /\ audioContextRef = 0) => activeSourcesRef = <<>>

\* What the transport of session k has been handed so far, followed by
\* what is still queued on its connect promise.
Outbound(k) ==
  SelectSeq(transportLog, LAMBDA e : e.s = k /\ e.op \in {"send", "close"})
    \o thenQueue[k]

\* C26: the frames that are sent reach sendRealtimeInput of their session in
\* the order of their capture, those queued while connect was unresolved
\* included, and none is handed over after the session's close was invoked.
C26_CaptureOrder ==
  \A k \in Sessions :
    LET o == Outbound(k) IN
    \A i \in DOMAIN o : \A j \in DOMAIN o :
       i < j =>
         /\ (o[i].op = "send" /\ o[j].op = "send") => o[i].f < o[j].f
         /\ o[i].op = "close" => o[j].op # "send"

\* Two frames were queued while connect was unresolved, the overlay was
\* closed, and connect resolved: both were sent and then the close ran.
C26_QueuedSentThenClosed ==
  /\ Len(frames) = 2
  /\ frames[1].conn = "pending"
  /\ frames[2].conn = "pending"
  /\ \E i \in DOMAIN transportLog : \E j \in DOMAIN transportLog :
       \E c \in DOMAIN transportLog :
         /\ i < j /\ j < c
         /\ transportLog[i].op = "send" /\ transportLog[i].f = 1
         /\ transportLog[j].op = "send" /\ transportLog[j].f = 2
         /\ transportLog[c].op = "close"

\* The step of C27: the handler of a message that carries audio and the
\* interrupted flag runs to its end.
C27_CombinedStep ==
  (/\ decoding # <<>>
   /\ decoding' = Tail(decoding)
   /\ Head(decoding).intr
   /\ audioContextRef # 0) =>
     /\ activeSourcesRef' = <<>>
     /\ nextStartTimeRef' = currentTime[audioContextRef]
     /\ \A h \in DOMAIN sources' : sources'[h].state \notin {"scheduled", "playing"}

\* C27: after a message with both an audio chunk and the interrupted flag,
\* PendingSources is empty, nothing is left to sound and nextStartTime is
\* the device clock's now, also when the decode of its audio fails.
C27_InterruptHonoured == [][C27_CombinedStep]_vars

\* C28: every handle registered in PendingSources is eventually removed
\* from it, by its completion, by an Interrupted or by teardown.
C28_EventuallyRemoved ==
  \A h \in Handles : Pending(h) ~> ~Pending(h)

\* The 16-bit values that createPcmBlob has put into its blob.
Encoded == Int16View(base64Decode(base64Data))

\* C30: every sample, those outside [-1, 1] included, is clamped and then
\* scaled without wrap-around: each encoded value lies in [-32768, 32767],
\* -1 and anything below encodes to -32768, 1 and anything above to 32767,
\* a negative sample to at most 0 and a non-negative one to at least 0, and
\* a larger sample never encodes to a smaller value.
C30_ClampedEncoding ==
  codecPc = "encoded" =>
     /\ Len(Encoded) = Len(data)
     /\ \A i \in DOMAIN data :
          /\ Encoded[i] >= -NegScale /\ Encoded[i] <= PosScale
          /\ data[i] <= -One => Encoded[i] = -NegScale
          /\ data[i] >= One => Encoded[i] = PosScale
          /\ data[i] < 0 => Encoded[i] <= 0
          /\ data[i] >= 0 => Encoded[i] >= 0
          /\ \A j \in DOMAIN data :
               data[i] <= data[j] => Encoded[i] <= Encoded[j]

\* A buffer with a sample below -1 and one above 1 has been encoded.
C30_OutOfRangeEncoded ==
  /\ codecPc = "encoded"
  /\ data = <<-2 * One, One + 1>>
  /\ Encoded = <<-NegScale, PosScale>>

\* C29: waitForFileActive polls at most 300 times; it returns once a poll
\* reports ACTIVE, fails with the file-processing-failed error as soon as a
\* poll reports FAILED, and otherwise ends with the timeout error after the
\* 300th poll.
C29_PollingOutcome ==
  /\ polls <= maxRetries
  /\ fileState = "ACTIVE" => uploadPc \in {"settle", "returned"}
  /\ fileState = "FAILED" => uploadPc = "failed"
  /\ uploadPc \in {"notFound", "timeout"} =>
       uploadPc = "timeout" /\ polls = maxRetries

=============================================================================
